---- MODULE Spec2Model ----
(***************************************************************************)
(* A model of data_buffer (iobuf.py): a list of unsigned integers of a     *)
(* uniform bit width with a read index and a write index, width conversion *)
(* under a byte order, endian swap, comparison and hashing.                *)
(*                                                                         *)
(* Python integers are unbounded, and 32 bit elements do not fit the       *)
(* integers of the model checker, so an integer is held as its two's       *)
(* complement digits in base 256, least significant first: d is the        *)
(* digits, f the digit that repeats for ever after them (0 for a value     *)
(* >= 0, 255 for a negative one).  The last digit of d is never f, so      *)
(* equal integers are equal records.                                       *)
(*                                                                         *)
(* Python lists are objects: two buffers may hold the same list.  heap     *)
(* maps the locations of the live lists to their items, and a buffer's     *)
(* buf field is a location.                                                *)
(***************************************************************************)
EXTENDS Integers, Sequences, FiniteSets, TLC

VARIABLES heap, obj, op, hist

vars == <<heap, obj, op, hist>>

----------------------------------------------------------------------------
(* Bounds of the model *)

\* the longest file of ReadSpec and VerifySpec, in bytes
MaxFile == 5
\* the reads of ReadSpec end when this many bytes were asked for
MaxRead == 8
\* the calls of wr32 that return in VerifySpec
MaxCalls == 2
\* no list is grown past this many bytes in Spec: a write or a widening
\* conversion that would is not offered
MaxBytes == 4
\* the longest list a buffer is constructed from in ConvSpec
MaxData == 4
\* the longest list a buffer is constructed from in CopySpec
MaxCopyData == 1
\* the number of calls made after the copy in CopySpec
MaxAfterCopy == 1

----------------------------------------------------------------------------
(* Python integers *)

Max(a, b) == IF a >= b THEN a ELSE b

\* & and | on small naturals, bit by bit
RECURSIVE BitAnd(_, _)
BitAnd(a, b) ==
  IF a = 0 \/ b = 0 THEN 0
  ELSE (a % 2) * (b % 2) + 2 * BitAnd(a \div 2, b \div 2)

RECURSIVE BitOr(_, _)
BitOr(a, b) ==
  IF a = 0 THEN b
  ELSE IF b = 0 THEN a
  ELSE Max(a % 2, b % 2) + 2 * BitOr(a \div 2, b \div 2)

\* drop the trailing digits that only repeat the fill digit
RECURSIVE Norm(_, _)
Norm(d, f) ==
  IF d # <<>> /\ d[Len(d)] = f
  THEN Norm(SubSeq(d, 1, Len(d) - 1), f)
  ELSE [d |-> d, f |-> f]

\* digit i (from 0) of an integer
Digit(v, i) == IF i < Len(v.d) THEN v.d[i + 1] ELSE v.f

\* the integer of a small natural literal
RECURSIVE Digits(_)
Digits(n) == IF n = 0 THEN <<>> ELSE <<n % 256>> \o Digits(n \div 256)

Lit(n) == [d |-> Digits(n), f |-> 0]

\* -1
MinusOne == [d |-> <<>>, f |-> 255]

\* x & y
And(x, y) ==
  LET n == Max(Len(x.d), Len(y.d))
  IN  Norm([i \in 1..n |-> BitAnd(Digit(x, i - 1), Digit(y, i - 1))],
           BitAnd(x.f, y.f))

\* x | y
Or(x, y) ==
  LET n == Max(Len(x.d), Len(y.d))
  IN  Norm([i \in 1..n |-> BitOr(Digit(x, i - 1), Digit(y, i - 1))],
           BitOr(x.f, y.f))

\* x << k and x >> k; every shift count in the source is a multiple of 8
Shl(x, k) == Norm([i \in 1..(k \div 8) |-> 0] \o x.d, x.f)

Shr(x, k) ==
  Norm(IF Len(x.d) <= k \div 8 THEN <<>>
       ELSE SubSeq(x.d, k \div 8 + 1, Len(x.d)), x.f)

----------------------------------------------------------------------------
(* util: the bit mask and byte swap helpers *)

\* util.mask(width): width one bits, (1 << width) - 1
mask(width) == [d |-> [i \in 1..(width \div 8) |-> 255], f |-> 0]

\* util.mask_val(val, width)
mask_val(val, width) == And(val, mask(width))

\* util.swap16(x), util.swap32(x): the bytes of x in reverse order
swap16(x) ==
  Or(Shl(And(x, Lit(255)), 8), And(Shr(x, 8), Lit(255)))

swap32(x) ==
  Or(Or(Shl(And(x, Lit(255)), 24), Shl(And(Shr(x, 8), Lit(255)), 16)),
     Or(Shl(And(Shr(x, 16), Lit(255)), 8), And(Shr(x, 24), Lit(255))))

----------------------------------------------------------------------------
(* Python lists *)

\* the location of a new list object: one that no live list has
Alloc(h) ==
  CHOOSE l \in 1..(Cardinality(DOMAIN h) + 1) :
    l \notin DOMAIN h /\ \A m \in 1..(l - 1) : m \in DOMAIN h

\* the position s[i] names, Python's negative indices included
Index(s, i) == IF i < 0 THEN i + Len(s) ELSE i

InRange(s, i) == 0 <= Index(s, i) /\ Index(s, i) < Len(s)

\* (0,) * n
Zeros(n) == [i \in 1..n |-> Lit(0)]

----------------------------------------------------------------------------
(* data_buffer *)

Widths == {8, 16, 32}
Modes == {"be", "le"}

\* data = None
None == 0

\* what a method call leaves: the heap, the object, the value returned and
\* "ok" or the exception raised
Result(h, self, ret, err) == [h |-> h, self |-> self, ret |-> ret, err |-> err]

Return(h, self) == Result(h, self, <<>>, "ok")

Raise(h, self, err) == Result(h, self, <<>>, err)

\* the constructor keeping the list it is given: self.buf = data
init_alias(h, width, data) ==
  IF data # None /\ h[data] # <<>>
  THEN Return(h, [width |-> width, buf |-> data,
                  wr_idx |-> Len(h[data]), rd_idx |-> 0])
  ELSE LET l == Alloc(h)
       IN  Return((l :> <<>>) @@ h,
                  [width |-> width, buf |-> l, wr_idx |-> 0, rd_idx |-> 0])

\* data_buffer(width, data): data is the location of a list, or None
init(h, width, data) ==
  LET l == Alloc(h)
      items == IF data # None /\ h[data] # <<>>
               THEN [i \in 1..Len(h[data]) |-> And(h[data][i], mask(width))]
               ELSE <<>>
  IN  Return((l :> items) @@ h,
             [width |-> width, buf |-> l, wr_idx |-> Len(items), rd_idx |-> 0])

copy(h, self) == init(h, self.width, self.buf)

\* read with rd_idx left where it is
read_noadvance(h, self) ==
  LET s == h[self.buf]
  IN  IF InRange(s, self.rd_idx)
      THEN Result(h, self, <<s[Index(s, self.rd_idx) + 1]>>, "ok")
      ELSE Raise(h, self, "IndexError")

read(h, self) ==
  LET s == h[self.buf]
  IN  IF InRange(s, self.rd_idx)
      THEN Result(h, [self EXCEPT !.rd_idx = @ + 1],
                  <<s[Index(s, self.rd_idx) + 1]>>, "ok")
      ELSE Raise(h, self, "IndexError")

\* rd32, rd16, rd8: assert self.width == N, then read()
rd32(h, self) ==
  IF self.width = 32 THEN read(h, self) ELSE Raise(h, self, "AssertionError")

\* rd16 asserting a width of 8
rd16_assert8(h, self) ==
  IF self.width = 8 THEN read(h, self) ELSE Raise(h, self, "AssertionError")

rd16(h, self) ==
  IF self.width = 16 THEN read(h, self) ELSE Raise(h, self, "AssertionError")

rd8(h, self) ==
  IF self.width = 8 THEN read(h, self) ELSE Raise(h, self, "AssertionError")

\* write appending with wr_idx left where it is
write_noadvance(h, self, val) ==
  LET v == mask_val(val, self.width)
      s == h[self.buf]
  IN  IF self.wr_idx = Len(s)
      THEN Return([h EXCEPT ![self.buf] = Append(s, v)], self)
      ELSE IF self.wr_idx < Len(s)
      THEN Return([h EXCEPT ![self.buf] =
                     [s EXCEPT ![Index(s, self.wr_idx) + 1] = v]], self)
      ELSE Raise(h, self, "AssertionError")

\* write with the masking of val left out
write_nomask(h, self, val) ==
  LET s == h[self.buf]
  IN  IF self.wr_idx = Len(s)
      THEN Return([h EXCEPT ![self.buf] = Append(s, val)],
                  [self EXCEPT !.wr_idx = @ + 1])
      ELSE IF self.wr_idx < Len(s)
      THEN Return([h EXCEPT ![self.buf] =
                     [s EXCEPT ![Index(s, self.wr_idx) + 1] = val]], self)
      ELSE Raise(h, self, "AssertionError")

write(h, self, val) ==
  LET v == mask_val(val, self.width)
      s == h[self.buf]
  IN  IF self.wr_idx = Len(s)
      THEN Return([h EXCEPT ![self.buf] = Append(s, v)],
                  [self EXCEPT !.wr_idx = @ + 1])
      ELSE IF self.wr_idx < Len(s)
      THEN IF InRange(s, self.wr_idx)
           THEN Return([h EXCEPT ![self.buf] =
                          [s EXCEPT ![Index(s, self.wr_idx) + 1] = v]], self)
           ELSE Raise(h, self, "IndexError")
      ELSE Raise(h, self, "AssertionError")

\* wr32, wr16, wr8: assert self.width == N, then write(val)
wr32(h, self, val) ==
  IF self.width = 32 THEN write(h, self, val)
  ELSE Raise(h, self, "AssertionError")

wr16(h, self, val) ==
  IF self.width = 16 THEN write(h, self, val)
  ELSE Raise(h, self, "AssertionError")

wr8(h, self, val) ==
  IF self.width = 8 THEN write(h, self, val)
  ELSE Raise(h, self, "AssertionError")

\* self.buf = new_buf: the object takes a new list
setbuf(h, self, new_buf) ==
  LET l == Alloc(h)
  IN  Return((l :> new_buf) @@ h, [self EXCEPT !.buf = l])

\* reset with rd_idx left as it is
reset_keep_rd(r, width) ==
  Return(r.h, [r.self EXCEPT !.wr_idx = Len(r.h[r.self.buf]),
                             !.width = width])

\* reset with wr_idx left as it is
reset_keep_wr(r, width) ==
  Return(r.h, [r.self EXCEPT !.rd_idx = 0, !.width = width])

\* the end of convert8/16/32: reset the buffer indices, set the width
reset(r, width) ==
  Return(r.h, [r.self EXCEPT !.wr_idx = Len(r.h[r.self.buf]),
                             !.rd_idx = 0,
                             !.width = width])

\* the 32 to 8 loop taking the little endian branch whatever the mode
RECURSIVE split32to8_le(_, _)
split32to8_le(s, mode) ==
  IF s = <<>> THEN <<>>
  ELSE LET x == Head(s)
       IN  <<And(x, Lit(255)), And(Shr(x, 8), Lit(255)),
             And(Shr(x, 16), Lit(255)), And(Shr(x, 24), Lit(255))>>
           \o split32to8_le(Tail(s), mode)

\* the loops of convert8
RECURSIVE split32to8(_, _)
split32to8(s, mode) ==
  IF s = <<>> THEN <<>>
  ELSE LET x == Head(s)
       IN  (IF mode = "be"
            THEN <<And(Shr(x, 24), Lit(255)), And(Shr(x, 16), Lit(255)),
                   And(Shr(x, 8), Lit(255)), And(x, Lit(255))>>
            ELSE <<And(x, Lit(255)), And(Shr(x, 8), Lit(255)),
                   And(Shr(x, 16), Lit(255)), And(Shr(x, 24), Lit(255))>>)
           \o split32to8(Tail(s), mode)

RECURSIVE split16to8(_, _)
split16to8(s, mode) ==
  IF s = <<>> THEN <<>>
  ELSE LET x == Head(s)
       IN  (IF mode = "be"
            THEN <<And(Shr(x, 8), Lit(255)), And(x, Lit(255))>>
            ELSE <<And(x, Lit(255)), And(Shr(x, 8), Lit(255))>>)
           \o split16to8(Tail(s), mode)

\* convert8 resetting the indices of an 8 bit buffer too
convert8_reset_same(h, self, mode) ==
  IF self.width = 32
  THEN reset(setbuf(h, self, split32to8(h[self.buf], mode)), 8)
  ELSE IF self.width = 16
  THEN reset(setbuf(h, self, split16to8(h[self.buf], mode)), 8)
  ELSE IF self.width = 8
  THEN reset(Return(h, self), 8)
  ELSE Raise(h, self, "AssertionError")

convert8(h, self, mode) ==
  IF self.width = 32
  THEN reset(setbuf(h, self, split32to8(h[self.buf], mode)), 8)
  ELSE IF self.width = 16
  THEN reset(setbuf(h, self, split16to8(h[self.buf], mode)), 8)
  ELSE IF self.width = 8
  THEN Return(h, self)
  ELSE Raise(h, self, "AssertionError")

\* the loops of convert16
RECURSIVE split32to16(_, _)
split32to16(s, mode) ==
  IF s = <<>> THEN <<>>
  ELSE LET x == Head(s)
       IN  (IF mode = "be"
            THEN <<And(Shr(x, 16), Lit(65535)), And(x, Lit(65535))>>
            ELSE <<And(x, Lit(65535)), And(Shr(x, 16), Lit(65535))>>)
           \o split32to16(Tail(s), mode)

\* the 8 to 16 loop with the two branches exchanged
RECURSIVE join8to16_mirror(_, _, _)
join8to16_mirror(s, i, mode) ==
  IF i >= Len(s) THEN <<>>
  ELSE LET val == IF mode = "be"
                  THEN Or(s[i + 1], Shl(s[i + 2], 8))
                  ELSE Or(Shl(s[i + 1], 8), s[i + 2])
       IN  <<val>> \o join8to16_mirror(s, i + 2, mode)

\* for i in range(i, len(s), 2), with s[i] the item at position i from 0
RECURSIVE join8to16(_, _, _)
join8to16(s, i, mode) ==
  IF i >= Len(s) THEN <<>>
  ELSE LET val == IF mode = "be"
                  THEN Or(Shl(s[i + 1], 8), s[i + 2])
                  ELSE Or(s[i + 1], Shl(s[i + 2], 8))
       IN  <<val>> \o join8to16(s, i + 2, mode)

\* convert16 padding a list of even length with two zeros
convert16_pad2(h, self, mode) ==
  IF self.width = 32
  THEN reset(setbuf(h, self, split32to16(h[self.buf], mode)), 16)
  ELSE IF self.width = 16
  THEN Return(h, self)
  ELSE IF self.width = 8
  THEN LET n  == 2 - BitAnd(Len(h[self.buf]), 1)
           h1 == [h EXCEPT ![self.buf] = @ \o Zeros(n)]
       IN  reset(setbuf(h1, self, join8to16(h1[self.buf], 0, mode)), 16)
  ELSE Raise(h, self, "AssertionError")

convert16(h, self, mode) ==
  IF self.width = 32
  THEN reset(setbuf(h, self, split32to16(h[self.buf], mode)), 16)
  ELSE IF self.width = 16
  THEN Return(h, self)
  ELSE IF self.width = 8
  THEN LET n  == BitAnd(Len(h[self.buf]), 1)
           h1 == [h EXCEPT ![self.buf] = @ \o Zeros(n)]
       IN  reset(setbuf(h1, self, join8to16(h1[self.buf], 0, mode)), 16)
  ELSE Raise(h, self, "AssertionError")

\* the loop of convert32
RECURSIVE join8to32(_, _, _)
join8to32(s, i, mode) ==
  IF i >= Len(s) THEN <<>>
  ELSE LET val == IF mode = "be"
                  THEN Or(Or(Or(Shl(s[i + 1], 24), Shl(s[i + 2], 16)),
                             Shl(s[i + 3], 8)), s[i + 4])
                  ELSE Or(Or(Or(s[i + 1], Shl(s[i + 2], 8)),
                             Shl(s[i + 3], 16)), Shl(s[i + 4], 24))
       IN  <<val>> \o join8to32(s, i + 4, mode)

\* convert32 with the assertion of the 16 bit branch not made
convert32_noassert(h, self, mode) ==
  IF self.width = 32
  THEN Return(h, self)
  ELSE IF self.width = 16
  THEN reset(Return(h, self), 32)
  ELSE IF self.width = 8
  THEN LET n  == BitAnd(4 - BitAnd(Len(h[self.buf]), 3), 3)
           h1 == [h EXCEPT ![self.buf] = @ \o Zeros(n)]
       IN  reset(setbuf(h1, self, join8to32(h1[self.buf], 0, mode)), 32)
  ELSE Raise(h, self, "AssertionError")

\* convert32 rounding up with n = 4 - (len & 3): four more bytes when the
\* length is a multiple of 4 already
convert32_pad4(h, self, mode) ==
  IF self.width = 32
  THEN Return(h, self)
  ELSE IF self.width = 16
  THEN Raise(h, self, "AssertionError")
  ELSE IF self.width = 8
  THEN LET n  == 4 - BitAnd(Len(h[self.buf]), 3)
           h1 == [h EXCEPT ![self.buf] = @ \o Zeros(n)]
       IN  reset(setbuf(h1, self, join8to32(h1[self.buf], 0, mode)), 32)
  ELSE Raise(h, self, "AssertionError")

convert32(h, self, mode) ==
  IF self.width = 32
  THEN Return(h, self)
  ELSE IF self.width = 16
  THEN Raise(h, self, "AssertionError")
  ELSE IF self.width = 8
  THEN LET n  == BitAnd(4 - BitAnd(Len(h[self.buf]), 3), 3)
           h1 == [h EXCEPT ![self.buf] = @ \o Zeros(n)]
       IN  reset(setbuf(h1, self, join8to32(h1[self.buf], 0, mode)), 32)
  ELSE Raise(h, self, "AssertionError")

convert(h, self, width, mode) ==
  IF width = 8 THEN convert8(h, self, mode)
  ELSE IF width = 16 THEN convert16(h, self, mode)
  ELSE IF width = 32 THEN convert32(h, self, mode)
  ELSE Raise(h, self, "AssertionError")

\* endian_swap with the 32 bit branch calling swap16
endian_swap_16(h, self) ==
  LET s == h[self.buf]
  IN  IF self.width = 32
      THEN setbuf(h, self, [i \in 1..Len(s) |-> swap16(s[i])])
      ELSE IF self.width = 16
      THEN setbuf(h, self, [i \in 1..Len(s) |-> swap16(s[i])])
      ELSE IF self.width = 8
      THEN Return(h, self)
      ELSE Raise(h, self, "AssertionError")

endian_swap(h, self) ==
  LET s == h[self.buf]
  IN  IF self.width = 32
      THEN setbuf(h, self, [i \in 1..Len(s) |-> swap32(s[i])])
      ELSE IF self.width = 16
      THEN setbuf(h, self, [i \in 1..Len(s) |-> swap16(s[i])])
      ELSE IF self.width = 8
      THEN Return(h, self)
      ELSE Raise(h, self, "AssertionError")

\* self.compare(x)
compare(h, self, x) ==
  LET a == h[self.buf]
      b == h[x.buf]
  IN  Result(h, self,
             <<self.width = x.width /\ Len(a) = Len(b)
               /\ \A i \in 1..Len(a) : a[i] = b[i]>>, "ok")

\* chr(b) for every b of the list: the bytes md5 is fed.  The digest is
\* held as the byte string it is the digest of.
Chars(s) == [i \in 1..Len(s) |-> Digit(s[i], 0)]

IsChr(v) == v.f = 0 /\ Len(v.d) <= 1

\* md5 converting the buffer itself and not a copy of it
md5_inplace(h, self, mode) ==
  LET r == convert8(h, self, mode)
      s == r.h[r.self.buf]
  IN  IF r.err # "ok" THEN Raise(r.h, r.self, r.err)
      ELSE IF \A i \in 1..Len(s) : IsChr(s[i])
      THEN Result(r.h, r.self, <<Chars(s)>>, "ok")
      ELSE Raise(r.h, r.self, "ValueError")

md5(h, self, mode) ==
  LET c == copy(h, self)
      r == convert8(c.h, c.self, mode)
      s == r.h[r.self.buf]
  IN  IF r.err # "ok" THEN Raise(r.h, self, r.err)
      ELSE IF \A i \in 1..Len(s) : IsChr(s[i])
      THEN Result(r.h, self, <<Chars(s)>>, "ok")
      ELSE Raise(r.h, self, "ValueError")

----------------------------------------------------------------------------
(* The program: buffers x and y, and the calls made on them *)

\* the integers handed to the constructor and to write: a negative one (-1)
\* and one wider than 32 bits with different low bytes (0x101020304)
Values == {MinusOne, [d |-> <<4, 3, 2, 1, 1>>, f |-> 0]}

\* the integers of the lists converted in ConvSpec: at width 8 they are the
\* bytes 1, 2, 3 and 4
ConvValues == {Lit(1), Lit(258), Lit(66051), Lit(16909060)}

SeqsUpTo(S, n) == UNION {[1..k -> S] : k \in 0..n}

\* what the garbage collector leaves: the lists the buffers hold, x's at
\* location 1 and y's, when it is another list, at location 2
Collect(h, o) ==
  LET lx == o["x"].buf
      two == "y" \in DOMAIN o /\ o["y"].buf # lx
  IN  [h   |-> IF two THEN (1 :> h[lx]) @@ (2 :> h[o["y"].buf])
               ELSE (1 :> h[lx]),
       obj |-> [n \in DOMAIN o |->
                  [o[n] EXCEPT !.buf = IF o[n].buf = lx THEN 1 ELSE 2]]]

\* the items of buffer t
Items(t) == heap[obj[t].buf]

\* buffer t as a caller sees it
View(t) ==
  [width |-> obj[t].width, items |-> Items(t),
   rd_idx |-> obj[t].rd_idx, wr_idx |-> obj[t].wr_idx]

\* the bytes the list of a call's result takes
Bytes(r) == Len(r.h[r.self.buf]) * (r.self.width \div 8)

\* a call on buffer t: r is what the method left
Call(t, name, arg, r) ==
  LET c == Collect(r.h, [obj EXCEPT ![t] = r.self])
  IN  /\ heap' = c.h
      /\ obj' = c.obj
      /\ op' = [name |-> name, tgt |-> t, arg |-> arg,
                ret |-> r.ret, err |-> r.err]

\* x = data_buffer(w), data = <<>>, or x = data_buffer(w, s), data = <<s>>
Construct(w, data) ==
  LET r == IF data = <<>> THEN init(<<>>, w, None)
           ELSE init((1 :> data[1]), w, 1)
      c == Collect(r.h, [n \in {"x"} |-> r.self])
  IN  /\ heap = c.h
      /\ obj = c.obj
      /\ op = [name |-> "init", tgt |-> "x", arg |-> <<w>> \o data,
               ret |-> <<>>, err |-> "ok"]
      /\ hist = <<>>

Init ==
  \E w \in Widths :
    \E data \in {<<>>}
          \cup {<<s>> : s \in SeqsUpTo(Values, MaxBytes \div (w \div 8))} :
      Construct(w, data)

Read(t) ==
  /\ Call(t, "read", <<>>, read(heap, obj[t]))
  /\ UNCHANGED hist

Write(t, v) ==
  /\ Bytes(write(heap, obj[t], v)) <= MaxBytes
  /\ Call(t, "write", <<v>>, write(heap, obj[t], v))
  /\ UNCHANGED hist

Convert(t, w, m) ==
  /\ Bytes(convert(heap, obj[t], w, m)) <= MaxBytes
  /\ Call(t, "convert", <<w, m>>, convert(heap, obj[t], w, m))
  /\ UNCHANGED hist

EndianSwap(t) ==
  /\ Call(t, "endian_swap", <<>>, endian_swap(heap, obj[t]))
  /\ UNCHANGED hist

\* dst = src.copy()
Copy(src, dst) ==
  LET r == copy(heap, obj[src])
      c == Collect(r.h, (dst :> r.self) @@ obj)
  IN  /\ heap' = c.h
      /\ obj' = c.obj
      /\ op' = [name |-> "copy", tgt |-> src, arg |-> <<dst>>,
                ret |-> <<>>, err |-> r.err]
      /\ UNCHANGED hist

Compare(t, u) ==
  /\ Call(t, "compare", <<u>>, compare(heap, obj[t], obj[u]))
  /\ UNCHANGED hist

Md5(t, m) ==
  /\ Call(t, "md5", <<m>>, md5(heap, obj[t], m))
  /\ UNCHANGED hist

\* one buffer, x, and every call on it; x = x.copy() carries on with the copy
Next ==
  \/ Read("x")
  \/ \E v \in Values : Write("x", v)
  \/ \E w \in Widths : \E m \in Modes : Convert("x", w, m)
  \/ EndianSwap("x")
  \/ Copy("x", "x")
  \/ Compare("x", "x")
  \/ \E m \in Modes : Md5("x", m)

Spec == Init /\ [][Next]_vars

----------------------------------------------------------------------------
(* read_file: integers read from a file of bytes, in sequence.  A file    *)
(* object is its bytes, the position of the next byte read and whether it *)
(* was closed; a string of bytes is a sequence of naturals below 256.     *)
(* The progress display of the adapters is left out.                      *)

Min(a, b) == IF a <= b THEN a ELSE b

\* open(name, 'rb'), data the bytes of the file of that name
open(data) == [data |-> data, pos |-> 0, closed |-> FALSE]

\* f.read(k): the k bytes from the position on, or those there are
fread(f, k) ==
  IF f.closed THEN [f |-> f, val |-> <<>>, err |-> "ValueError"]
  ELSE LET e == Min(f.pos + k, Len(f.data))
       IN  [f |-> [f EXCEPT !.pos = e],
            val |-> SubSeq(f.data, f.pos + 1, e), err |-> "ok"]

\* '\xff' * n
Fill(n) == [i \in 1..n |-> 255]

\* struct.unpack(fmt, val)[0]
unpack(fmt, val) ==
  IF fmt = "B" THEN Lit(val[1])
  ELSE IF fmt = "<H" THEN Or(Lit(val[1]), Shl(Lit(val[2]), 8))
  ELSE IF fmt = ">H" THEN Or(Shl(Lit(val[1]), 8), Lit(val[2]))
  ELSE IF fmt = "<L"
  THEN Or(Or(Or(Lit(val[1]), Shl(Lit(val[2]), 8)),
             Shl(Lit(val[3]), 16)), Shl(Lit(val[4]), 24))
  ELSE Or(Or(Or(Shl(Lit(val[1]), 24), Shl(Lit(val[2]), 16)),
             Shl(Lit(val[3]), 8)), Lit(val[4]))

\* what a call on an adapter leaves
FileResult(self, ret, err) == [self |-> self, ret |-> ret, err |-> err]

\* read_file(ui, msg, name, size, mode): ui is the lines put on the display
read_file_init(msg, data, mode) ==
  [ui    |-> <<msg \o " ">>,
   f     |-> open(data),
   n     |-> 0,
   fmt16 |-> IF mode = "le" THEN "<H" ELSE ">H",
   fmt32 |-> IF mode = "le" THEN "<L" ELSE ">L"]

\* rd32 with the 0xff bytes put before the bytes read
read_file_rd32_front(self) ==
  LET r   == fread(self.f, 4)
      n   == Len(r.val)
      val == IF n # 4 THEN Fill(4 - n) \o r.val ELSE r.val
  IN  IF r.err # "ok" THEN FileResult(self, <<>>, r.err)
      ELSE FileResult([self EXCEPT !.f = r.f, !.n = @ + 4],
                      <<unpack(self.fmt32, val)>>, "ok")

read_file_rd32(self) ==
  LET r   == fread(self.f, 4)
      n   == Len(r.val)
      val == IF n # 4 THEN r.val \o Fill(4 - n) ELSE r.val
  IN  IF r.err # "ok" THEN FileResult(self, <<>>, r.err)
      ELSE FileResult([self EXCEPT !.f = r.f, !.n = @ + 4],
                      <<unpack(self.fmt32, val)>>, "ok")

read_file_rd16(self) ==
  LET r   == fread(self.f, 2)
      n   == Len(r.val)
      val == IF n # 2 THEN r.val \o Fill(2 - n) ELSE r.val
  IN  IF r.err # "ok" THEN FileResult(self, <<>>, r.err)
      ELSE FileResult([self EXCEPT !.f = r.f, !.n = @ + 2],
                      <<unpack(self.fmt16, val)>>, "ok")

read_file_rd8(self) ==
  LET r   == fread(self.f, 1)
      n   == Len(r.val)
      val == IF n = 0 THEN Fill(1) ELSE r.val
  IN  IF r.err # "ok" THEN FileResult(self, <<>>, r.err)
      ELSE FileResult([self EXCEPT !.f = r.f, !.n = @ + 1],
                      <<unpack("B", val)>>, "ok")

\* the bytes of the files
FileBytes == {1, 2}

\* a call on the adapter r
FileCall(name, arg, r) ==
  /\ obj' = [obj EXCEPT !["r"] = r.self]
  /\ op' = [name |-> name, tgt |-> "r", arg |-> arg,
            ret |-> r.ret, err |-> r.err]
  /\ UNCHANGED <<heap, hist>>

\* ReadSpec: r = read_file(ui, "read", name, size, mode) on a file of up to
\* MaxFile bytes, and reads from it while r.n is not past MaxRead.  hist
\* holds the bytes of the file and the mode.
InitRead ==
  \E data \in SeqsUpTo(FileBytes, MaxFile) : \E mode \in Modes :
    /\ heap = <<>>
    /\ obj = [n \in {"r"} |-> read_file_init("read", data, mode)]
    /\ op = [name |-> "init", tgt |-> "r", arg |-> <<mode>>,
             ret |-> <<>>, err |-> "ok"]
    /\ hist = <<[data |-> data, mode |-> mode]>>

ReadRd32 ==
  /\ obj["r"].n + 4 <= MaxRead
  /\ FileCall("rd32", <<>>, read_file_rd32(obj["r"]))

ReadRd16 ==
  /\ obj["r"].n + 2 <= MaxRead
  /\ FileCall("rd16", <<>>, read_file_rd16(obj["r"]))

ReadRd8 ==
  /\ obj["r"].n + 1 <= MaxRead
  /\ FileCall("rd8", <<>>, read_file_rd8(obj["r"]))

NextRead == ReadRd32 \/ ReadRd16 \/ ReadRd8

ReadSpec == InitRead /\ [][NextRead]_vars

----------------------------------------------------------------------------
(* verify_file: 32 bit integers compared with those of a file, the         *)
(* differences kept in a list.                                             *)

\* verify_file(ui, msg, name, size, mode)
verify_file_init(msg, data, mode) ==
  [ui    |-> <<msg \o " ">>,
   f     |-> open(data),
   n     |-> 0,
   diff  |-> <<>>,
   fmt16 |-> IF mode = "le" THEN "<H" ELSE ">H",
   fmt32 |-> IF mode = "le" THEN "<L" ELSE ">L"]

verify_file_close(self) ==
  FileResult([self EXCEPT
                !.f.closed = TRUE,
                !.ui = Append(@, IF Len(self.diff) = 0 THEN "same\n"
                                 ELSE ToString(Len(self.diff))
                                        \o " differences\n")],
             <<>>, "ok")

file_rd32(self) ==
  LET r   == fread(self.f, 4)
      n   == Len(r.val)
      val == IF n # 4 THEN r.val \o Fill(4 - n) ELSE r.val
  IN  IF r.err # "ok" THEN FileResult(self, <<>>, r.err)
      ELSE FileResult([self EXCEPT !.f = r.f],
                      <<unpack(self.fmt32, val)>>, "ok")

\* wr32 adding 4 to self.n before the difference is recorded
verify_file_wr32_late(self, val) ==
  LET r == file_rd32(self)
      x == r.ret[1]
  IN  IF r.err # "ok" THEN r
      ELSE FileResult([r.self EXCEPT
                         !.diff = IF val # x
                                  THEN Append(@, <<self.n + 4, val, x>>)
                                  ELSE @,
                         !.n = @ + 4],
                      <<>>, "ok")

verify_file_wr32(self, val) ==
  LET r == file_rd32(self)
      x == r.ret[1]
  IN  IF r.err # "ok" THEN r
      ELSE FileResult([r.self EXCEPT
                         !.diff = IF val # x
                                  THEN Append(@, <<self.n, val, x>>)
                                  ELSE @,
                         !.n = @ + 4],
                      <<>>, "ok")

\* the integers handed to wr32: 0x01010101, 0xffffffff and -1
VerifyValues ==
  {Lit(16843009), [d |-> <<255, 255, 255, 255>>, f |-> 0], MinusOne}

\* VerifySpec: r = verify_file(ui, "verify", name, size, mode) on a file of
\* up to MaxFile bytes, up to MaxCalls calls of wr32 that return, and
\* close.  hist holds the bytes of the file and the mode, and after them
\* the integers handed to the calls of wr32 that returned.
InitVerify ==
  \E data \in SeqsUpTo(FileBytes, MaxFile) : \E mode \in Modes :
    /\ heap = <<>>
    /\ obj = [n \in {"r"} |-> verify_file_init("verify", data, mode)]
    /\ op = [name |-> "init", tgt |-> "r", arg |-> <<mode>>,
             ret |-> <<>>, err |-> "ok"]
    /\ hist = <<[data |-> data, mode |-> mode]>>

VerifyWr32(val) ==
  LET r == verify_file_wr32(obj["r"], val)
  IN  /\ Len(hist) <= MaxCalls
      /\ obj' = [obj EXCEPT !["r"] = r.self]
      /\ op' = [name |-> "wr32", tgt |-> "r", arg |-> <<val>>,
                ret |-> r.ret, err |-> r.err]
      /\ hist' = IF r.err = "ok" THEN Append(hist, val) ELSE hist
      /\ UNCHANGED heap

VerifyClose ==
  /\ ~obj["r"].f.closed
  /\ FileCall("close", <<>>, verify_file_close(obj["r"]))

NextVerify ==
  \/ \E val \in VerifyValues : VerifyWr32(val)
  \/ VerifyClose

VerifySpec == InitVerify /\ [][NextVerify]_vars

----------------------------------------------------------------------------
(* AccSpec: an 8 bit buffer, the accessors of the three widths and         *)
(* convert: the buffer has another width only after a conversion.          *)

InitAcc ==
  \E data \in {<<>>} \cup {<<s>> : s \in SeqsUpTo(Values, MaxBytes)} :
    Construct(8, data)

Rd32(t) ==
  /\ Call(t, "rd32", <<>>, rd32(heap, obj[t]))
  /\ UNCHANGED hist

Rd16(t) ==
  /\ Call(t, "rd16", <<>>, rd16(heap, obj[t]))
  /\ UNCHANGED hist

Rd8(t) ==
  /\ Call(t, "rd8", <<>>, rd8(heap, obj[t]))
  /\ UNCHANGED hist

Wr32(t, v) ==
  /\ Bytes(wr32(heap, obj[t], v)) <= MaxBytes
  /\ Call(t, "wr32", <<v>>, wr32(heap, obj[t], v))
  /\ UNCHANGED hist

Wr16(t, v) ==
  /\ Bytes(wr16(heap, obj[t], v)) <= MaxBytes
  /\ Call(t, "wr16", <<v>>, wr16(heap, obj[t], v))
  /\ UNCHANGED hist

Wr8(t, v) ==
  /\ Bytes(wr8(heap, obj[t], v)) <= MaxBytes
  /\ Call(t, "wr8", <<v>>, wr8(heap, obj[t], v))
  /\ UNCHANGED hist

ConvertAcc(t, w, m) ==
  /\ Bytes(convert(heap, obj[t], w, m)) <= MaxBytes
  /\ Call(t, "convert", <<w, m>>, convert(heap, obj[t], w, m))
  /\ UNCHANGED hist

NextAcc ==
  \/ Rd32("x")
  \/ Rd16("x")
  \/ Rd8("x")
  \/ \E v \in Values : Wr32("x", v)
  \/ \E v \in Values : Wr16("x", v)
  \/ \E v \in Values : Wr8("x", v)
  \/ \E w \in Widths : \E m \in Modes : ConvertAcc("x", w, m)

AccSpec == InitAcc /\ [][NextAcc]_vars

----------------------------------------------------------------------------
(* ConvSpec: a buffer constructed from a list, converted, and converted    *)
(* back to the width it had under the same byte order.  hist holds the     *)
(* buffer as it was before each conversion and the conversion asked for.   *)

InitConv ==
  \E w \in Widths : \E s \in SeqsUpTo(ConvValues, MaxData) :
    Construct(w, <<s>>)

Logged(w, m) ==
  Append(hist, [width |-> w, mode |-> m, pre |-> View("x")])

First(w, m) ==
  /\ hist = <<>>
  /\ Call("x", "convert", <<w, m>>, convert(heap, obj["x"], w, m))
  /\ hist' = Logged(w, m)

Back ==
  /\ Len(hist) = 1
  /\ LET w == hist[1].pre.width
         m == hist[1].mode
     IN  /\ Call("x", "convert", <<w, m>>, convert(heap, obj["x"], w, m))
         /\ hist' = Logged(w, m)

NextConv ==
  \/ \E w \in Widths : \E m \in Modes : First(w, m)
  \/ Back

ConvSpec == InitConv /\ [][NextConv]_vars

----------------------------------------------------------------------------
(* CopySpec: x is constructed and read from, y = x.copy(), and calls are   *)
(* made on either buffer.  hist holds the names of the calls made since    *)
(* the copy.                                                               *)

Two == "y" \in DOMAIN obj

InitCopy ==
  \E w \in Widths :
    \E data \in {<<>>} \cup {<<s>> : s \in SeqsUpTo(Values, MaxCopyData)} :
      Construct(w, data)

ReadFirst == ~Two /\ Read("x")

CopyXY == ~Two /\ Copy("x", "y")

After(name) == Two /\ Len(hist) < MaxAfterCopy /\ hist' = Append(hist, name)

ReadAfter(t) ==
  After("read") /\ Call(t, "read", <<>>, read(heap, obj[t]))

WriteAfter(t, v) ==
  After("write") /\ Call(t, "write", <<v>>, write(heap, obj[t], v))

ConvertAfter(t, w, m) ==
  After("convert")
  /\ Call(t, "convert", <<w, m>>, convert(heap, obj[t], w, m))

EndianSwapAfter(t) ==
  After("endian_swap")
  /\ Call(t, "endian_swap", <<>>, endian_swap(heap, obj[t]))

CompareAfter(t, u) ==
  After("compare")
  /\ Call(t, "compare", <<u>>, compare(heap, obj[t], obj[u]))

NextCopy ==
  \/ ReadFirst
  \/ CopyXY
  \/ \E t \in DOMAIN obj : ReadAfter(t)
  \/ \E t \in DOMAIN obj : \E v \in Values : WriteAfter(t, v)
  \/ \E t \in DOMAIN obj : \E w \in Widths : \E m \in Modes :
       ConvertAfter(t, w, m)
  \/ \E t \in DOMAIN obj : EndianSwapAfter(t)
  \/ \E t \in DOMAIN obj : \E u \in DOMAIN obj \ {t} : CompareAfter(t, u)

CopySpec == InitCopy /\ [][NextCopy]_vars

----------------------------------------------------------------------------
(* The claims *)

\* v is an unsigned integer of at most w bits: 0 <= v < 2^w
IsUnsigned(v, w) ==
  /\ v.f = 0
  /\ Len(v.d) <= w \div 8
  /\ \A i \in 1..Len(v.d) : v.d[i] \in 0..255
  /\ v.d # <<>> => v.d[Len(v.d)] # 0

\* C1: in every state reached from the constructor (no data, or a list of
\* integers, negative and wider than 32 bits among them) by write, read,
\* convert, endian_swap and copy, every item v of the buffer has
\* 0 <= v < 2^width for the width the buffer has then.
C1_MaskedRange ==
  \A t \in DOMAIN obj :
    /\ obj[t].width \in Widths
    /\ \A i \in 1..Len(Items(t)) : IsUnsigned(Items(t)[i], obj[t].width)

\* -1 was written to a 16 bit buffer and 0xffff is its last item
C1_Witness ==
  /\ op.name = "write" /\ op.arg = <<MinusOne>> /\ op.err = "ok"
  /\ obj["x"].width = 16
  /\ Items("x")[Len(Items("x"))] = Lit(65535)

\* C2, as claimed: after any successful convert(target_width, mode), the
\* identity conversion and conversions after reads included, width is
\* target_width, rd_idx is 0 and wr_idx is len(buf).
C2_AfterAnyConvert ==
  (op.name = "convert" /\ op.err = "ok") =>
    /\ obj[op.tgt].width = op.arg[1]
    /\ obj[op.tgt].rd_idx = 0
    /\ obj[op.tgt].wr_idx = Len(Items(op.tgt))

\* C2, amended: after a successful convert(target_width, mode) to a width
\* other than the buffer's, width is target_width, rd_idx is 0 and wr_idx is
\* len(buf); a conversion to the width the buffer has changes nothing, so
\* width is target_width and wr_idx is len(buf), and rd_idx keeps its value.
C2_AfterConvert ==
  [][\A t \in DOMAIN obj :
       (op'.name = "convert" /\ op'.tgt = t /\ op'.err = "ok") =>
         IF obj[t].width = op'.arg[1]
         THEN /\ View(t)' = View(t)
              /\ obj[t].wr_idx = Len(Items(t))
         ELSE /\ obj'[t].width = op'.arg[1]
              /\ obj'[t].rd_idx = 0
              /\ obj'[t].wr_idx = Len(Items(t)')]_vars

\* a conversion to the buffer's own width was made after a read: rd_idx
\* is not 0 after it
C2_Witness ==
  /\ op.name = "convert" /\ op.err = "ok"
  /\ obj["x"].width = op.arg[1]
  /\ obj["x"].rd_idx > 0

----------------------------------------------------------------------------
(* The conversions, byte by byte *)

\* byte i (from 0) of a list of bytes with zeros after its end
ByteAt(src, i) == IF i < Len(src) THEN Digit(src[i + 1], 0) ELSE 0

\* the integer whose k bytes are bytes k*j .. k*j+k-1 of src: the first of
\* them the least significant under "le", the most significant under "be"
Group(src, j, k, m) ==
  Norm([p \in 1..k |->
          ByteAt(src, k * j + (IF m = "le" THEN p - 1 ELSE k - p))], 0)

\* chunk c (0 the least significant) of v cut in chunks of cb bytes
Chunk(v, c, cb) == Norm([p \in 1..cb |-> Digit(v, c * cb + p - 1)], 0)

\* C3: convert(w, mode), w in {16, 32}, of an 8 bit buffer of n items leaves
\* ceil(n / k) items, k = w / 8; item j joins items k*j .. k*j+k-1 of the
\* list with zeros after its end, the first of them the most significant
\* byte under "be" and the least significant under "le".
C3_Widening ==
  (Len(hist) = 1 /\ hist[1].pre.width = 8 /\ hist[1].width \in {16, 32}) =>
    LET src == hist[1].pre.items
        m   == hist[1].mode
        k   == hist[1].width \div 8
        res == Items("x")
    IN  /\ op.err = "ok"
        /\ obj["x"].width = hist[1].width
        /\ Len(res) = (Len(src) + k - 1) \div k
        /\ \A j \in 0..(Len(res) - 1) : res[j + 1] = Group(src, j, k, m)
        /\ (src = <<Lit(1), Lit(2), Lit(3), Lit(4)>> /\ k = 2) =>
             res = IF m = "le" THEN <<Lit(513), Lit(1027)>>
                   ELSE <<Lit(258), Lit(772)>>
        /\ (src = <<Lit(1), Lit(2), Lit(3)>> /\ k = 2 /\ m = "le") =>
             res = <<Lit(513), Lit(3)>>

\* [1, 2, 3] was converted to 16 bits under "le": two items, the second
\* padded
C3_Witness ==
  /\ Len(hist) = 1 /\ hist[1].pre.width = 8 /\ hist[1].mode = "le"
  /\ hist[1].pre.items = <<Lit(1), Lit(2), Lit(3)>>
  /\ hist[1].width = 16
  /\ Items("x") = <<Lit(513), Lit(3)>>

\* C4: a narrowing convert (32 to 8, 32 to 16, 16 to 8) puts in the place of
\* each item, in order, its old_width / new_width chunks: the most
\* significant first under "be", the least significant first under "le".
C4_Narrowing ==
  (Len(hist) = 1 /\ hist[1].pre.width > hist[1].width) =>
    LET src == hist[1].pre.items
        m   == hist[1].mode
        r   == hist[1].pre.width \div hist[1].width
        cb  == hist[1].width \div 8
        res == Items("x")
    IN  /\ op.err = "ok"
        /\ obj["x"].width = hist[1].width
        /\ Len(res) = Len(src) * r
        /\ \A i \in 0..(Len(src) - 1) : \A j \in 0..(r - 1) :
             res[i * r + j + 1] =
               Chunk(src[i + 1], IF m = "be" THEN r - 1 - j ELSE j, cb)

\* two different 32 bit items were cut in bytes under "be"
C4_Witness ==
  /\ Len(hist) = 1 /\ hist[1].pre.width = 32 /\ hist[1].width = 8
  /\ hist[1].mode = "be"
  /\ hist[1].pre.items = <<Lit(16909060), Lit(66051)>>
  /\ Items("x") = <<Lit(1), Lit(2), Lit(3), Lit(4),
                    Lit(0), Lit(1), Lit(2), Lit(3)>>

\* C5: for the pairs 8-16-8, 8-32-8, 16-8-16 and 32-8-32 and either byte
\* order, convert(w2, order) and then convert(w1, order) give back the list
\* there was, followed, when it was a list of bytes whose length is no
\* multiple of w2 / 8, by the zeros that make it one, and by nothing else.
C5_RoundTrip ==
  (Len(hist) = 2
   /\ <<hist[1].pre.width, hist[1].width>>
        \in {<<8, 16>>, <<8, 32>>, <<16, 8>>, <<32, 8>>}) =>
    LET src == hist[1].pre.items
        w1  == hist[1].pre.width
        w2  == hist[1].width
        k   == IF w2 > w1 THEN w2 \div w1 ELSE 1
        pad == (k - (Len(src) % k)) % k
    IN  /\ op.err = "ok"
        /\ hist[2].mode = hist[1].mode /\ hist[2].width = w1
        /\ obj["x"].width = w1
        /\ Items("x") = src \o [i \in 1..pad |-> Lit(0)]

\* three bytes went to 32 bits and back: one zero follows them
C5_Witness ==
  /\ Len(hist) = 2 /\ hist[1].pre.width = 8 /\ hist[1].width = 32
  /\ hist[1].pre.items = <<Lit(1), Lit(2), Lit(3)>>
  /\ Items("x") = <<Lit(1), Lit(2), Lit(3), Lit(0)>>

----------------------------------------------------------------------------
(* The calls, one at a time *)

\* C6: convert(32, mode) on a 16 bit buffer fails, whatever the buffer holds
\* (nothing included) and whatever the mode, with the assertion error of the
\* unsupported conversion, and leaves width, items, rd_idx and wr_idx as
\* they were.
C6_Unsupported ==
  [][\A t \in DOMAIN obj :
       (op'.name = "convert" /\ op'.tgt = t /\ op'.arg[1] = 32
        /\ obj[t].width = 16) =>
         /\ op'.err = "AssertionError"
         /\ View(t)' = View(t)]_vars

\* convert(32) has failed on a 16 bit buffer that holds items, one of them
\* read
C6_Witness ==
  /\ op.name = "convert" /\ op.arg[1] = 32 /\ op.err = "AssertionError"
  /\ obj["x"].width = 16
  /\ Items("x") # <<>>
  /\ obj["x"].rd_idx > 0

\* C7: in every state reached by the constructor, copy, write, read, convert
\* and endian_swap, wr_idx is len(buf); no write ends in the assertion of
\* the overrun branch, and every write appends one item and leaves the
\* items there were.
C7_AppendOnly ==
  /\ [](/\ \A t \in DOMAIN obj : obj[t].wr_idx = Len(Items(t))
        /\ op.name = "write" => op.err = "ok")
  /\ [][\A t \in DOMAIN obj :
          (op'.name = "write" /\ op'.tgt = t) =>
            /\ Len(Items(t)') = Len(Items(t)) + 1
            /\ SubSeq(Items(t)', 1, Len(Items(t))) = Items(t)]_vars

\* a third item was written to a buffer of two
C7_Witness ==
  /\ op.name = "write" /\ op.err = "ok"
  /\ Len(Items("x")) = 3
  /\ obj["x"].wr_idx = 3

\* C8: read() fails (IndexError, the underflow) exactly when
\* rd_idx >= len(buf), and then leaves the buffer and rd_idx as they were;
\* otherwise it returns buf[rd_idx], adds 1 to rd_idx and leaves width,
\* items and wr_idx as they were.
C8_Read ==
  [][\A t \in DOMAIN obj :
       (op'.name = "read" /\ op'.tgt = t) =>
         IF obj[t].rd_idx >= Len(Items(t))
         THEN /\ op'.err = "IndexError"
              /\ View(t)' = View(t)
         ELSE /\ op'.err = "ok"
              /\ op'.ret = <<Items(t)[obj[t].rd_idx + 1]>>
              /\ View(t)' = [View(t) EXCEPT !.rd_idx = @ + 1]]_vars

\* a read has failed on a buffer with items, all of them read
C8_Witness ==
  /\ op.name = "read" /\ op.err = "IndexError"
  /\ Len(Items("x")) = 2
  /\ obj["x"].rd_idx = 2

\* the bytes of a list of items of width w, item after item, each from its
\* most significant byte under "be" and from its least under "le"
ByteStream(w, items, m) ==
  [q \in 1..(Len(items) * (w \div 8)) |->
     LET cb == w \div 8
         i  == (q - 1) \div cb
         j  == (q - 1) % cb
     IN  Digit(items[i + 1], IF m = "be" THEN cb - 1 - j ELSE j)]

\* C9: md5(mode) leaves width, items, rd_idx and wr_idx as they were, and
\* what it hashes is set by width, items and mode alone: the items read so
\* far make no difference.
C9_Md5 ==
  [][\A t \in DOMAIN obj :
       (op'.name = "md5" /\ op'.tgt = t) =>
         /\ op'.err = "ok"
         /\ View(t)' = View(t)
         /\ op'.ret = <<ByteStream(obj[t].width, Items(t), op'.arg[1])>>]_vars

\* a 32 bit buffer with an item read was hashed under "be"
C9_Witness ==
  /\ op.name = "md5" /\ op.arg = <<"be">> /\ op.err = "ok"
  /\ obj["x"].width = 32
  /\ obj["x"].rd_idx = 1
  /\ op.ret = <<<<1, 2, 3, 4>>>>

\* C10: y = x.copy() has x's width and items, rd_idx 0 and wr_idx len(buf),
\* and compare finds the two the same; the copy leaves x as it was, and a
\* later call on either buffer leaves the other as it was.
C10_Copy ==
  /\ [](/\ op.name = "copy" =>
             /\ op.err = "ok"
             /\ obj[op.arg[1]].width = obj[op.tgt].width
             /\ Items(op.arg[1]) = Items(op.tgt)
             /\ obj[op.arg[1]].rd_idx = 0
             /\ obj[op.arg[1]].wr_idx = Len(Items(op.tgt))
             /\ compare(heap, obj[op.tgt], obj[op.arg[1]]).ret = <<TRUE>>
        /\ (op.name = "compare" /\ hist = <<"compare">>) =>
             op.ret = <<TRUE>>)
  /\ [][\A t \in DOMAIN obj :
          (op'.name = "copy" \/ op'.tgt # t) => View(t)' = View(t)]_vars

\* x was read from and copied, and an item was written to the copy
C10_Witness ==
  /\ Two /\ hist = <<"write">> /\ op.tgt = "y" /\ op.err = "ok"
  /\ obj["x"].rd_idx = 1
  /\ Len(Items("y")) = Len(Items("x")) + 1

----------------------------------------------------------------------------
\* C11: endian_swap() made twice gives back the items there were; one
\* endian_swap() leaves the number of items, the width, rd_idx and wr_idx as
\* they were, and on an 8 bit buffer it leaves everything as it was.  The
\* second call is made on the state the first one left.
C11_EndianSwap ==
  [][\A t \in DOMAIN obj :
       (op'.name = "endian_swap" /\ op'.tgt = t) =>
         LET again == endian_swap(heap', obj'[t])
         IN  /\ op'.err = "ok"
             /\ Len(Items(t)') = Len(Items(t))
             /\ obj'[t].width = obj[t].width
             /\ obj'[t].rd_idx = obj[t].rd_idx
             /\ obj'[t].wr_idx = obj[t].wr_idx
             /\ obj[t].width = 8 => View(t)' = View(t)
             /\ again.err = "ok"
             /\ again.h[again.self.buf] = Items(t)
             /\ [again.self EXCEPT !.buf = 0] = [obj[t] EXCEPT !.buf = 0]]_vars

\* a 32 bit buffer holding 0x01020304, read from, was swapped to 0x04030201
C11_Witness ==
  /\ op.name = "endian_swap" /\ op.err = "ok"
  /\ obj["x"].width = 32
  /\ obj["x"].rd_idx = 1
  /\ Items("x") = <<Lit(67305985)>>

----------------------------------------------------------------------------
\* C12: at every width and for every integer val, write(val) with wr_idx at
\* len(buf) puts val & mask(width), the low width / 8 bytes of val, at
\* index wr_idx, adds 1 to len(buf) and to wr_idx, and leaves the items
\* before it, the width and rd_idx as they were; a read() from that index
\* returns val & mask(width), and so does the read() that follows the write
\* when every earlier item was read.
C12_WriteRead ==
  [][\A t \in DOMAIN obj :
       /\ (op'.name = "write" /\ op'.tgt = t /\ obj[t].wr_idx = Len(Items(t)))
          => LET v == Chunk(op'.arg[1], 0, obj[t].width \div 8)
                 there == [obj'[t] EXCEPT !.rd_idx = obj[t].wr_idx]
             IN  /\ op'.err = "ok"
                 /\ Len(Items(t)') = Len(Items(t)) + 1
                 /\ Items(t)'[obj[t].wr_idx + 1] = v
                 /\ SubSeq(Items(t)', 1, Len(Items(t))) = Items(t)
                 /\ obj'[t].wr_idx = obj[t].wr_idx + 1
                 /\ obj'[t].width = obj[t].width
                 /\ obj'[t].rd_idx = obj[t].rd_idx
                 /\ read(heap', there).err = "ok"
                 /\ read(heap', there).ret = <<v>>
       /\ (op.name = "write" /\ op.tgt = t /\ op'.name = "read" /\ op'.tgt = t
           /\ obj[t].rd_idx = obj[t].wr_idx - 1)
          => /\ op'.err = "ok"
             /\ op'.ret = <<Chunk(op.arg[1], 0, obj[t].width \div 8)>>]_vars

\* 0x101020304 was written after an item of a 16 bit buffer, the item read:
\* 0x0304 is the second item
C12_Witness ==
  /\ op.name = "write" /\ op.arg = <<[d |-> <<4, 3, 2, 1, 1>>, f |-> 0]>>
  /\ op.err = "ok"
  /\ obj["x"].width = 16
  /\ obj["x"].rd_idx = 1
  /\ Len(Items("x")) = 2
  /\ Items("x")[2] = Lit(772)

----------------------------------------------------------------------------
\* the width an accessor is for, and the call it makes
AccWidth(name) ==
  IF name \in {"rd32", "wr32"} THEN 32
  ELSE IF name \in {"rd16", "wr16"} THEN 16 ELSE 8

Plain(h, self, name, arg) ==
  IF name \in {"rd32", "rd16", "rd8"} THEN read(h, self)
  ELSE write(h, self, arg[1])

\* C13: rdN() and wrN(val) on a buffer of width N leave the buffer, the
\* value returned and the error raised as read() and write(val) would, and
\* on a buffer of another width they raise AssertionError and leave the
\* items, the width, rd_idx and wr_idx as they were; the width that counts
\* is the one a convert made before has left.
C13_Accessors ==
  [][\A t \in DOMAIN obj :
       (op'.name \in {"rd32", "rd16", "rd8", "wr32", "wr16", "wr8"}
        /\ op'.tgt = t)
       => IF obj[t].width = AccWidth(op'.name)
          THEN LET r == Plain(heap, obj[t], op'.name, op'.arg)
               IN  /\ op'.err = r.err
                   /\ op'.ret = r.ret
                   /\ Items(t)' = r.h[r.self.buf]
                   /\ [obj'[t] EXCEPT !.buf = 0] = [r.self EXCEPT !.buf = 0]
          ELSE /\ op'.err = "AssertionError"
               /\ op'.ret = <<>>
               /\ View(t)' = View(t)]_vars

\* the buffer is a 16 bit one, so it was converted, and rd16() returned
\* 0x0304
C13_Witness ==
  /\ op.name = "rd16" /\ op.err = "ok"
  /\ op.ret = <<Lit(772)>>
  /\ obj["x"].width = 16

----------------------------------------------------------------------------
\* C14: convert(w, mode) from width old, every pair but 16 to 32, leaves a
\* list whose length times w is the length there was times old, rounded up
\* to a multiple of w.  To a narrower width the two are equal and the bytes
\* are those there were; to the same width the list is the one there was;
\* to a wider one the bytes are those there were followed by fewer than
\* w / 8 bytes, all of them zero.
C14_SizeConservation ==
  (Len(hist) = 1 /\ <<hist[1].pre.width, hist[1].width>> # <<16, 32>>) =>
    LET src  == hist[1].pre.items
        old  == hist[1].pre.width
        w    == hist[1].width
        m    == hist[1].mode
        res  == Items("x")
        was  == ByteStream(old, src, m)
        now  == ByteStream(w, res, m)
    IN  /\ op.err = "ok"
        /\ obj["x"].width = w
        /\ Len(res) * w = ((Len(src) * old + w - 1) \div w) * w
        /\ w < old => now = was
        /\ w = old => res = src
        /\ w > old =>
             /\ Len(now) - Len(was) < w \div 8
             /\ SubSeq(now, 1, Len(was)) = was
             /\ \A q \in (Len(was) + 1)..Len(now) : now[q] = 0

\* three bytes were converted to 32 bits under "be": one item, 32 bits for
\* the 24 there were, the last byte a zero
C14_Witness ==
  /\ Len(hist) = 1 /\ hist[1].pre.width = 8 /\ hist[1].width = 32
  /\ hist[1].mode = "be"
  /\ hist[1].pre.items = <<Lit(1), Lit(2), Lit(3)>>
  /\ Items("x") = <<Lit(16909056)>>

----------------------------------------------------------------------------
\* C17: 0 <= rd_idx <= len(buf) in every state; a call on a buffer changes
\* its rd_idx only by adding 1, in a read() that returns, or by setting it
\* to 0, in a convert to another width that returns; write, endian_swap,
\* compare, md5 and a read() that raises leave it as it was.  (x = x.copy()
\* makes x another buffer.)
C17_ReadCursor ==
  /\ [](\A t \in DOMAIN obj :
          0 <= obj[t].rd_idx /\ obj[t].rd_idx <= Len(Items(t)))
  /\ [][\A t \in DOMAIN obj :
          (op'.tgt = t /\ op'.name # "copy") =>
            /\ obj'[t].rd_idx # obj[t].rd_idx =>
                 \/ /\ op'.name = "read" /\ op'.err = "ok"
                    /\ obj'[t].rd_idx = obj[t].rd_idx + 1
                 \/ /\ op'.name = "convert" /\ op'.err = "ok"
                    /\ op'.arg[1] # obj[t].width
                    /\ obj'[t].rd_idx = 0
            /\ op'.name \in {"write", "endian_swap", "compare", "md5"} =>
                 obj'[t].rd_idx = obj[t].rd_idx
            /\ (op'.name = "read" /\ op'.err # "ok") =>
                 obj'[t].rd_idx = obj[t].rd_idx]_vars

\* convert(8, mode) of an 8 bit buffer, two of its four items read, left
\* rd_idx at 2
C17_Witness ==
  /\ op.name = "convert" /\ op.arg[1] = 8 /\ op.err = "ok"
  /\ obj["x"].width = 8
  /\ Len(Items("x")) = 4
  /\ obj["x"].rd_idx = 2

----------------------------------------------------------------------------
\* byte i (from 0) of a file of bytes, 0xff after its end
FileAt(data, i) == IF i < Len(data) THEN data[i + 1] ELSE 255

\* the k bytes from offset n on as one integer: the first byte the least
\* significant under "le", the most significant under "be"
Word(data, n, k, m) ==
  Norm([p \in 1..k |->
          FileAt(data, n + (IF m = "le" THEN p - 1 ELSE k - p))], 0)

\* C15: rd8, rd16 and rd32 of read_file raise nothing, whatever is left of
\* the file; the integer returned is the one whose bytes, in the byte order
\* of the adapter, are the bytes of the file from the offset of the read on,
\* with 0xff for every byte past the end of the file; a read at or past the
\* end returns 0xff, 0xffff or 0xffffffff.
C15_ReaderFill ==
  [][op'.name \in {"rd8", "rd16", "rd32"} =>
       LET k    == IF op'.name = "rd32" THEN 4
                   ELSE IF op'.name = "rd16" THEN 2 ELSE 1
           data == hist[1].data
           n    == obj["r"].n
       IN  /\ op'.err = "ok"
           /\ op'.ret = <<Word(data, n, k, hist[1].mode)>>
           /\ obj'["r"].n = n + k
           /\ n >= Len(data) => op'.ret = <<Chunk(MinusOne, 0, k)>>]_vars

\* rd32 under "be" at offset 2 of a file of three bytes, the last of them a
\* 1: 0x01ffffff
C15_Witness ==
  /\ op.name = "rd32" /\ op.err = "ok"
  /\ hist[1].mode = "be"
  /\ hist[1].data = <<2, 2, 1>>
  /\ obj["r"].n = 6
  /\ op.ret = <<[d |-> <<255, 255, 255, 1>>, f |-> 0]>>

----------------------------------------------------------------------------
\* the differences calls i, i + 1, ... of wr32 are to record: call i was
\* handed hist[i + 2] and the file holds Word(data, 4 * i, 4, mode)
RECURSIVE Diffs(_)
Diffs(i) ==
  IF i + 2 > Len(hist) THEN <<>>
  ELSE LET x == Word(hist[1].data, 4 * i, 4, hist[1].mode)
       IN  (IF hist[i + 2] # x THEN <<<<4 * i, hist[i + 2], x>>>> ELSE <<>>)
             \o Diffs(i + 1)

\* C16: after k calls of wr32 on a verify_file, diff holds, in the order of
\* the calls, one entry (4 * i, the integer handed to call i, the integer
\* of the file at offset 4 * i with 0xff past its end) for each call i
\* whose two integers differ, and nothing else; self.n is 4 * k; diff is
\* empty when and only when every call was handed the integer of the file;
\* close puts 'same' for an empty diff and the number of its entries
\* otherwise.
C16_Verifier ==
  LET k == Len(hist) - 1
  IN  /\ obj["r"].diff = Diffs(0)
      /\ obj["r"].n = 4 * k
      /\ \A j \in 1..Len(obj["r"].diff) :
           /\ obj["r"].diff[j][1] % 4 = 0
           /\ j > 1 => obj["r"].diff[j - 1][1] < obj["r"].diff[j][1]
      /\ Len(obj["r"].diff) = 0 <=>
           \A i \in 0..(k - 1) :
             hist[i + 2] = Word(hist[1].data, 4 * i, 4, hist[1].mode)
      /\ op.name = "close" =>
           /\ op.err = "ok"
           /\ obj["r"].ui[Len(obj["r"].ui)] =
                IF Len(Diffs(0)) = 0 THEN "same\n"
                ELSE ToString(Len(Diffs(0))) \o " differences\n"

\* a file of the four bytes 01 01 01 01, wr32(0x01010101), wr32(-1), close:
\* one difference, at offset 4, -1 for the 0xffffffff past the end
C16_Witness ==
  /\ op.name = "close"
  /\ hist[1].data = <<1, 1, 1, 1>>
  /\ Len(hist) = 3
  /\ obj["r"].diff =
       <<<<4, MinusOne, [d |-> <<255, 255, 255, 255>>, f |-> 0]>>>>
  /\ obj["r"].ui[Len(obj["r"].ui)] = "1 differences\n"

====
